---- MODULE Spec2Model ----
(***************************************************************************)
(* NHL weekly pick tracker (src/nhl_pick_app.py).                          *)
(*                                                                         *)
(* Two spreadsheet tables (schedule, picks) and a page script that every   *)
(* session reruns on each interaction: resolve the current week, offer the *)
(* pick form, offer the admin winner control, then compute the statistics. *)
(* A calendar date is a day number; a WeekStartDate cell that does not     *)
(* parse is NaT.  A table is the sequence of its data rows (the header row *)
(* is always the six column names and is left out).                        *)
(***************************************************************************)
EXTENDS Integers, Sequences, FiniteSets, TLC

VARIABLES
    schedule,          \* the schedule sheet's data rows
    today,             \* the calendar date, as a day number
    picks,             \* the picks sheet's data rows
    pc,                \* per session: where its script run stands
    username,          \* per session: the sidebar selection
    df_all,            \* per session: the picks frame loaded at line 85 / 165
    current_week,      \* per session: the resolved week
    week_status,       \* per session: "Open" / "Closed" ("Error": run aborted)
    idx,               \* per session: position of the step-2 loop in week_schedule
    df,                \* per session: the frame load_picks() returned inside save_*
    op,                \* per session: the arguments of the save_* call in progress
    weekly_accuracy,   \* per session: the "Weekly Accuracy" metric, in tenths of a percent
    weekly_leaderboard,\* per session: the weekly leaderboard table
    called             \* history: per game, the winner the page last passed to save_winner

vars == <<schedule, today, picks, pc, username, df_all, current_week,
          week_status, idx, df, op, weekly_accuracy, weekly_leaderboard,
          called>>

----------------------------------------------------------------------------
(* Bounds of the model *)

MaxDay == 15          \* the clock stops here
MaxRows == 2          \* a direct save_pick call appends no row beyond this table length
MaxSched == 3         \* schedule length drawn for the week resolver
MaxWeekDay == 22      \* latest date drawn for the week resolver
MaxStatRows == 3      \* table length drawn for the statistics

----------------------------------------------------------------------------
(* Data *)

users == {"Em", "Ma"}

Sessions == {1, 2}

NaT == -1

OpenDays == 7

NoValue == -1

TBD == "TBD"

NoOp == [kind |-> "none", from |-> "", user |-> "", week |-> "", date |-> "",
         game |-> "", value |-> ""]

SchedRow(w, s, d, g, h, a) ==
    [Week |-> w, WeekStartDate |-> s, Date |-> d, Game |-> g, Home |-> h, Away |-> a]

(* The schedule the page flow runs against: two weeks, and the second has  *)
(* a game with the same name as the game of the first.                     *)
SeasonSchedule ==
    << SchedRow("1", 1, "d1", "Game1", "A", "B"),
       SchedRow("2", 8, "d8", "Game1", "C", "D") >>

SeasonGames == {SeasonSchedule[i].Game : i \in 1..Len(SeasonSchedule)}

Indices(s) == 1..Len(s)

----------------------------------------------------------------------------
(* Data store adapter *)

(* load_picks(): every data row of the sheet, in sheet order.              *)
load_picks(sheet) == sheet

(* picks_sheet.update(header + rows): gspread's Worksheet.update writes    *)
(* the given rows into the sheet from its first cell and touches no cell   *)
(* outside them: rows of the sheet below the written block stay.           *)
SheetUpdate(sheet, rows) ==
    rows \o SubSeq(sheet, Len(rows) + 1, Len(sheet))

----------------------------------------------------------------------------
(* Pick manager and result recorder: the frame each save_* writes back *)

exists(frame, user, week, game) ==
    {i \in Indices(frame) :
        frame[i].User = user /\ frame[i].Week = week /\ frame[i].Game = game}

new_row(user, week, date, game, pick) ==
    [User |-> user, Week |-> week, Date |-> date, Game |-> game,
     Pick |-> pick, Winner |-> ""]

(* An upsert whose appended row takes over the winner already recorded for *)
(* the game, which save_pick does not do.                                  *)
SavePickFrameWithWinner(frame, user, week, date, game, pick) ==
    IF exists(frame, user, week, game) # {}
    THEN [i \in Indices(frame) |->
            IF i \in exists(frame, user, week, game)
            THEN [frame[i] EXCEPT !.Pick = pick]
            ELSE frame[i]]
    ELSE LET rows == {i \in Indices(frame) : frame[i].Game = game}
         IN  Append(frame,
                [new_row(user, week, date, game, pick) EXCEPT !.Winner =
                    IF rows # {} THEN frame[CHOOSE i \in rows : \A j \in rows : i <= j].Winner
                    ELSE ""])

SavePickFrame(frame, user, week, date, game, pick) ==
    IF exists(frame, user, week, game) # {}
    THEN [i \in Indices(frame) |->
            IF i \in exists(frame, user, week, game)
            THEN [frame[i] EXCEPT !.Pick = pick]
            ELSE frame[i]]
    ELSE Append(frame, new_row(user, week, date, game, pick))

(* A recorder that sets the winner on the first row of the game only,      *)
(* which save_winner does not do.                                          *)
SaveWinnerFirstRow(frame, game, winner) ==
    LET rows == {i \in Indices(frame) : frame[i].Game = game}
    IN  [i \in Indices(frame) |->
            IF i \in rows /\ \A j \in rows : i <= j
            THEN [frame[i] EXCEPT !.Winner = winner]
            ELSE frame[i]]

SaveWinnerFrame(frame, game, winner) ==
    [i \in Indices(frame) |->
        IF frame[i].Game = game
        THEN [frame[i] EXCEPT !.Winner = winner]
        ELSE frame[i]]

----------------------------------------------------------------------------
(* Week resolver *)

(* schedule_df[schedule_df["WeekStartDate"] <= today]: a NaT cell compares *)
(* False.                                                                  *)
past_weeks(sched, day) ==
    SelectSeq(sched, LAMBDA r : r.WeekStartDate # NaT /\ r.WeekStartDate <= day)

current_week_start(sched, day) ==
    LET starts == {past_weeks(sched, day)[i].WeekStartDate :
                        i \in Indices(past_weeks(sched, day))}
    IN  CHOOSE d \in starts : \A e \in starts : e <= d

(* current_week_row["Week"].iloc[0]: the first schedule row whose          *)
(* WeekStartDate is the latest one not after today; "TBD" when none is.    *)
CurrentWeek(sched, day) ==
    IF past_weeks(sched, day) # << >>
    THEN LET hits == {i \in Indices(sched) :
                        sched[i].WeekStartDate = current_week_start(sched, day)}
         IN  sched[CHOOSE i \in hits : \A j \in hits : i <= j].Week
    ELSE TBD

week_schedule(sched, week) == SelectSeq(sched, LAMBDA r : r.Week = week)

(* The status rule of the unused helper get_week_status (lines 64-71):     *)
(* Open on the start day only.  The page does not use it.                  *)
WeekStatusesOneDay(sched, week, day) ==
    IF week_schedule(sched, week) # << >>
    THEN LET week_start == week_schedule(sched, week)[1].WeekStartDate
         IN  IF week_start = NaT THEN {"Closed", "Error"}
             ELSE IF day < week_start + 1 THEN {"Open"}
             ELSE {"Closed"}
    ELSE {"Open"}

(* Lines 111-118.  week_start is the WeekStartDate of the first schedule   *)
(* row of the current week.  When that cell is NaT, today < NaT + 7 days   *)
(* is False (pandas 1.x) or raises TypeError (pandas 2.x): both outcomes.  *)
WeekStatuses(sched, week, day) ==
    IF week_schedule(sched, week) # << >>
    THEN LET week_start == week_schedule(sched, week)[1].WeekStartDate
         IN  IF week_start = NaT THEN {"Closed", "Error"}
             ELSE IF day < week_start + OpenDays THEN {"Open"}
             ELSE {"Closed"}
    ELSE {"Open"}

----------------------------------------------------------------------------
(* Presentation layer: values the widgets offer and display *)

options(row) == {row.Home, row.Away}

(* df_all[df_all["Game"]==game]["Winner"].dropna().unique()[0]: every cell *)
(* is a string, so nothing is dropped and the first row of the game in     *)
(* sheet order decides; "" when the game has no row.                       *)
current_winner(frame, game) ==
    LET rows == {i \in Indices(frame) : frame[i].Game = game}
    IN  IF rows # {} THEN frame[CHOOSE i \in rows : \A j \in rows : i <= j].Winner
        ELSE ""

(* A trigger that fires on every non-empty selection, which line 158 does  *)
(* not do.                                                                 *)
WinnerSelected(winner, shown) == winner # ""

(* Line 158. *)
WinnerChanged(winner, shown) == winner # shown /\ winner # ""

----------------------------------------------------------------------------
(* Stats engine *)

Correct(r) == r.Pick = r.Winner

(* round(x, 1) of x = 100 * num / den, in tenths: to the nearest tenth,    *)
(* a tie to the even one.                                                  *)
RoundTenths(num, den) ==
    LET q == (1000 * num) \div den
        r == (1000 * num) % den
    IN  IF 2 * r < den THEN q
        ELSE IF 2 * r > den THEN q + 1
        ELSE IF q % 2 = 0 THEN q ELSE q + 1

MeanCorrect(frame, rows) ==
    RoundTenths(Cardinality({i \in rows : Correct(frame[i])}), Cardinality(rows))

(* Lines 167-173: the selected user's rows of the current week.            *)
UserAccuracy(frame, user, week) ==
    LET rows == {i \in Indices(frame) : frame[i].User = user /\ frame[i].Week = week}
    IN  IF rows # {} THEN MeanCorrect(frame, rows) ELSE NoValue

(* The leaderboard over the rows of every week (the overall leaderboard of *)
(* lines 187-193), which the weekly one is not.                            *)
LeaderboardAllWeeks(frame, week) ==
    LET groups == {frame[i].User : i \in Indices(frame)}
    IN  [u \in groups |->
            MeanCorrect(frame, {i \in Indices(frame) : frame[i].User = u})]

(* Lines 179-185: groupby("User") over the rows of the current week: one   *)
(* entry per user that has a row there.                                    *)
WeeklyLeaderboard(frame, week) ==
    LET week_picks == {i \in Indices(frame) : frame[i].Week = week}
        groups == {frame[i].User : i \in week_picks}
    IN  [u \in groups |->
            MeanCorrect(frame, {i \in week_picks : frame[i].User = u})]

----------------------------------------------------------------------------
(* The page script, one run per session interaction *)

(* Lines 76-118: sidebar selection, both loads, week and status.  The      *)
(* rerun clears what the previous run displayed.  A run whose status       *)
(* computation raises ends there.                                          *)
PageLoad(s) ==
    /\ pc[s] = "idle"
    /\ \E u \in users :
       \E st \in WeekStatuses(schedule, CurrentWeek(schedule, today), today) :
          /\ username' = [username EXCEPT ![s] = u]
          /\ week_status' = [week_status EXCEPT ![s] = st]
          /\ pc' = [pc EXCEPT ![s] = IF st = "Error" THEN "idle" ELSE "picks"]
    /\ df_all' = [df_all EXCEPT ![s] = load_picks(picks)]
    /\ current_week' = [current_week EXCEPT ![s] = CurrentWeek(schedule, today)]
    /\ weekly_accuracy' = [weekly_accuracy EXCEPT ![s] = NoValue]
    /\ weekly_leaderboard' = [weekly_leaderboard EXCEPT ![s] = << >>]
    /\ UNCHANGED <<schedule, today, picks, idx, df, op, called>>

(* A form that is offered whatever the status, which line 126 does not do. *)
PicksAlways(status) == TRUE

(* Line 126. *)
PicksOpen(status) == status = "Open"

(* Lines 126-143.  A rerun carries at most one pressed button.  Pressing   *)
(* "Save Pick" for a game with a non-empty radio value enters save_pick,   *)
(* whose first statement loads the picks; anything else saves nothing.     *)
MakePicks(s) ==
    /\ pc[s] = "picks"
    /\ \/ /\ pc' = [pc EXCEPT ![s] = "winners"]
          /\ UNCHANGED <<df, op>>
       \/ /\ PicksOpen(week_status[s])
          /\ \E i \in Indices(week_schedule(schedule, current_week[s])) :
                LET row == week_schedule(schedule, current_week[s])[i] IN
                \E pick \in {""} \cup options(row) :
                   /\ pick # ""
                   /\ op' = [op EXCEPT ![s] =
                               [kind |-> "pick", from |-> "page", user |-> username[s],
                                week |-> current_week[s], date |-> row.Date,
                                game |-> row.Game, value |-> pick]]
          /\ df' = [df EXCEPT ![s] = load_picks(picks)]
          /\ pc' = [pc EXCEPT ![s] = "save_pick"]
    /\ UNCHANGED <<schedule, today, picks, username, df_all, current_week, week_status,
                   idx, weekly_accuracy, weekly_leaderboard, called>>

(* Where a save_* call returns to: the step-2 loop of the page, or the     *)
(* caller of a direct call.                                                *)
ReturnTo(s) == IF op[s].from = "page" THEN "winners" ELSE "idle"

(* Lines 51-57 of save_pick: upsert in the loaded frame, write it back.    *)
SavePick(s) ==
    /\ pc[s] = "save_pick"
    /\ picks' = SheetUpdate(picks, SavePickFrame(df[s], op[s].user, op[s].week,
                                                 op[s].date, op[s].game, op[s].value))
    /\ pc' = [pc EXCEPT ![s] = ReturnTo(s)]
    /\ df' = [df EXCEPT ![s] = << >>]
    /\ op' = [op EXCEPT ![s] = NoOp]
    /\ UNCHANGED <<schedule, today, username, df_all, current_week, week_status, idx,
                   weekly_accuracy, weekly_leaderboard, called>>

(* Lines 149-159, one game of the loop: the selectbox value against the    *)
(* winner shown from the frame loaded at line 85.  A changed, non-empty    *)
(* value enters save_winner, whose first statement loads the picks.        *)
RecordWinner(s) ==
    /\ pc[s] = "winners"
    /\ idx[s] <= Len(week_schedule(schedule, current_week[s]))
    /\ LET row == week_schedule(schedule, current_week[s])[idx[s]] IN
       \E winner \in {""} \cup options(row) :
          IF WinnerChanged(winner, current_winner(df_all[s], row.Game))
          THEN /\ op' = [op EXCEPT ![s] =
                           [kind |-> "winner", from |-> "page", user |-> "",
                            week |-> "", date |-> "", game |-> row.Game,
                            value |-> winner]]
               /\ df' = [df EXCEPT ![s] = load_picks(picks)]
               /\ pc' = [pc EXCEPT ![s] = "save_winner"]
               /\ called' = [called EXCEPT ![row.Game] = winner]
               /\ UNCHANGED idx
          ELSE /\ idx' = [idx EXCEPT ![s] = idx[s] + 1]
               /\ UNCHANGED <<op, df, pc, called>>
    /\ UNCHANGED <<schedule, today, picks, username, df_all, current_week, week_status,
                   weekly_accuracy, weekly_leaderboard>>

(* Lines 61-62 of save_winner: set Winner in the loaded frame, write back. *)
SaveWinner(s) ==
    /\ pc[s] = "save_winner"
    /\ picks' = SheetUpdate(picks, SaveWinnerFrame(df[s], op[s].game, op[s].value))
    /\ pc' = [pc EXCEPT ![s] = ReturnTo(s)]
    /\ idx' = [idx EXCEPT ![s] = IF op[s].from = "page" THEN idx[s] + 1 ELSE idx[s]]
    /\ df' = [df EXCEPT ![s] = << >>]
    /\ op' = [op EXCEPT ![s] = NoOp]
    /\ UNCHANGED <<schedule, today, username, df_all, current_week, week_status,
                   weekly_accuracy, weekly_leaderboard, called>>

(* Lines 165-185: reload, the user's weekly accuracy, the weekly           *)
(* leaderboard; the run ends and its frame is dropped.                     *)
Stats(s) ==
    /\ pc[s] = "winners"
    /\ idx[s] > Len(week_schedule(schedule, current_week[s]))
    /\ weekly_accuracy' = [weekly_accuracy EXCEPT ![s] =
            UserAccuracy(load_picks(picks), username[s], current_week[s])]
    /\ weekly_leaderboard' = [weekly_leaderboard EXCEPT ![s] =
            WeeklyLeaderboard(load_picks(picks), current_week[s])]
    /\ pc' = [pc EXCEPT ![s] = "idle"]
    /\ idx' = [idx EXCEPT ![s] = 1]
    /\ df_all' = [df_all EXCEPT ![s] = << >>]
    /\ UNCHANGED <<schedule, today, picks, username, current_week, week_status, df, op,
                   called>>

(* The calendar moves on.  Only line 90 reads it, at the start of a run,   *)
(* so a day that passes during a run is one that passes right after it.    *)
Tick ==
    /\ today < MaxDay
    /\ \A s \in Sessions : pc[s] = "idle"
    /\ today' = today + 1
    /\ UNCHANGED <<schedule, picks, pc, username, df_all, current_week, week_status,
                   idx, df, op, weekly_accuracy, weekly_leaderboard, called>>

Run(s) ==
    \/ PageLoad(s)
    \/ MakePicks(s)
    \/ SavePick(s)
    \/ RecordWinner(s)
    \/ SaveWinner(s)
    \/ Stats(s)

----------------------------------------------------------------------------
(* Direct calls of the two operations *)

ApiWeeks == {"1", "2"}

ApiGames == {"Game1", "Game2"}

ApiTeams == {"A", "B"}

(* save_pick(user, week, date, game, pick) is called; line 50 loads.       *)
CallSavePick(s, weeks, games) ==
    /\ pc[s] = "idle"
    /\ \E user \in users, week \in weeks, game \in games, pick \in ApiTeams :
          /\ Len(SavePickFrame(load_picks(picks), user, week, "d", game, pick)) <= MaxRows
          /\ op' = [op EXCEPT ![s] =
                      [kind |-> "pick", from |-> "call", user |-> user, week |-> week,
                       date |-> "d", game |-> game, value |-> pick]]
    /\ df' = [df EXCEPT ![s] = load_picks(picks)]
    /\ pc' = [pc EXCEPT ![s] = "save_pick"]
    /\ UNCHANGED <<schedule, today, picks, username, df_all, current_week, week_status,
                   idx, weekly_accuracy, weekly_leaderboard, called>>

(* save_winner(game, winner) is called; line 60 loads.                     *)
CallSaveWinner(s, games) ==
    /\ pc[s] = "idle"
    /\ \E game \in games, winner \in ApiTeams :
          op' = [op EXCEPT ![s] =
                   [kind |-> "winner", from |-> "call", user |-> "", week |-> "",
                    date |-> "", game |-> game, value |-> winner]]
    /\ df' = [df EXCEPT ![s] = load_picks(picks)]
    /\ pc' = [pc EXCEPT ![s] = "save_winner"]
    /\ UNCHANGED <<schedule, today, picks, username, df_all, current_week, week_status,
                   idx, weekly_accuracy, weekly_leaderboard, called>>

----------------------------------------------------------------------------
(* Specifications *)

Rest ==
    /\ pc = [s \in Sessions |-> "idle"]
    /\ username = [s \in Sessions |-> "Em"]
    /\ df_all = [s \in Sessions |-> << >>]
    /\ current_week = [s \in Sessions |-> TBD]
    /\ week_status = [s \in Sessions |-> "Open"]
    /\ idx = [s \in Sessions |-> 1]
    /\ df = [s \in Sessions |-> << >>]
    /\ op = [s \in Sessions |-> NoOp]
    /\ weekly_accuracy = [s \in Sessions |-> NoValue]
    /\ weekly_leaderboard = [s \in Sessions |-> << >>]
    /\ called = [g \in SeasonGames |-> ""]

(* The page flow, one run at a time (the synchronous request-per-          *)
(* interaction model), from an empty picks sheet, the day before the first *)
(* week starts.                                                            *)
Init ==
    /\ schedule = SeasonSchedule
    /\ today = 0
    /\ picks = << >>
    /\ Rest

Next == Tick \/ Run(1)

Spec == Init /\ [][Next]_vars

(* Direct calls of save_pick and save_winner, one after the other, from an *)
(* empty picks sheet.                                                      *)
NextOps ==
    \/ CallSavePick(1, ApiWeeks, ApiGames)
    \/ CallSaveWinner(1, ApiGames)
    \/ SavePick(1)
    \/ SaveWinner(1)

SpecOps == Init /\ [][NextOps]_vars

(* Two sessions whose calls interleave at every sheet access.              *)
NextConcurrent ==
    \E s \in Sessions :
        \/ CallSavePick(s, {"1"}, {"Game1"})
        \/ CallSaveWinner(s, {"Game1"})
        \/ SavePick(s)
        \/ SaveWinner(s)

SpecConcurrent == Init /\ [][NextConcurrent]_vars

(* The week resolver on drawn inputs: any schedule of up to MaxSched rows  *)
(* (weeks repeated, start dates equal, out of order or unparseable) and    *)
(* any date; the first part of a page run resolves the week.               *)
DrawnRows ==
    {SchedRow(w, d, "d", "Game1", "A", "B") : w \in {"1", "2"}, d \in {1, 8, 15, NaT}}
        \cup {SchedRow("3", d, "d", "Game1", "A", "B") : d \in {15, NaT}}

DrawnSchedules == UNION {[1..n -> DrawnRows] : n \in 0..MaxSched}

InitWeek ==
    /\ schedule \in DrawnSchedules
    /\ today \in 0..MaxWeekDay
    /\ picks = << >>
    /\ Rest

NextWeek == PageLoad(1)

SpecWeek == InitWeek /\ [][NextWeek]_vars

(* The stats engine on drawn inputs: any picks table of up to MaxStatRows  *)
(* rows, read by the last part of a page run on the first day of week 1.   *)
StatWinner(game) == IF game = "Game1" THEN "A" ELSE ""

StatRows ==
    {[User |-> u, Week |-> w, Date |-> "d", Game |-> g, Pick |-> p,
      Winner |-> StatWinner(g)] :
        u \in users, w \in {"1", "2"}, g \in {"Game1", "Game2"}, p \in {"A", "B"}}

StatTables == UNION {[1..n -> StatRows] : n \in 0..MaxStatRows}

InitStats ==
    /\ schedule = SeasonSchedule
    /\ today = 1
    /\ picks \in StatTables
    /\ pc = [s \in Sessions |-> IF s = 1 THEN "winners" ELSE "idle"]
    /\ username \in [Sessions -> users]
    /\ username[2] = "Em"
    /\ df_all = [s \in Sessions |-> IF s = 1 THEN picks ELSE << >>]
    /\ current_week = [s \in Sessions |->
                          IF s = 1 THEN CurrentWeek(SeasonSchedule, 1) ELSE TBD]
    /\ week_status = [s \in Sessions |-> "Open"]
    /\ idx = [s \in Sessions |->
                 IF s = 1
                 THEN Len(week_schedule(SeasonSchedule, CurrentWeek(SeasonSchedule, 1))) + 1
                 ELSE 1]
    /\ df = [s \in Sessions |-> << >>]
    /\ op = [s \in Sessions |-> NoOp]
    /\ weekly_accuracy = [s \in Sessions |-> NoValue]
    /\ weekly_leaderboard = [s \in Sessions |-> << >>]
    /\ called = [g \in SeasonGames |-> ""]

NextStats == Stats(1)

SpecStats == InitStats /\ [][NextStats]_vars

----------------------------------------------------------------------------
(* Properties *)

Keys(frame, user, week, game) ==
    {i \in 1..Len(frame) :
        frame[i].User = user /\ frame[i].Week = week /\ frame[i].Game = game}

(* A run of session s has resolved its week (the thrown status included). *)
Resolved(s) == pc[s] # "idle" \/ week_status[s] = "Error"

PastStarts ==
    {schedule[i].WeekStartDate : i \in 1..Len(schedule)} \cap (0..today)

LatestStart == CHOOSE d \in PastStarts : \A e \in PastStarts : e <= d

ResolvedWeekIsLatest(s) ==
    \E i \in 1..Len(schedule) :
        schedule[i].WeekStartDate = LatestStart /\ schedule[i].Week = current_week[s]

(* The first schedule row of session s's resolved week. *)
FirstRowOfWeek(s) ==
    schedule[CHOOSE i \in 1..Len(schedule) :
                /\ schedule[i].Week = current_week[s]
                /\ \A j \in 1..(i - 1) : schedule[j].Week # current_week[s]]

WeekRows(user, week) ==
    {i \in 1..Len(picks) : picks[i].User = user /\ picks[i].Week = week}

Hits(user, week) ==
    {i \in WeekRows(user, week) : picks[i].Pick = picks[i].Winner}

(* acc (tenths of a percent) is 100 * hits / rows rounded to one decimal. *)
IsRoundedShare(acc, hits, rows) ==
    /\ acc \in 0..1000
    /\ 2 * (acc * rows - 1000 * hits) <= rows
    /\ 2 * (1000 * hits - acc * rows) <= rows

(* C8: after the statistics of a run, the weekly leaderboard has exactly   *)
(* one entry per user with at least one row in the current week, the       *)
(* entry is 100 * (rows with Pick = Winner) / (rows) to one decimal, and a *)
(* user without a row in the week has no accuracy value.                   *)
C8_WeeklyLeaderboard ==
    (pc[1] = "idle" /\ current_week[1] # TBD) =>
        /\ DOMAIN weekly_leaderboard[1] = {u \in users : WeekRows(u, current_week[1]) # {}}
        /\ \A u \in DOMAIN weekly_leaderboard[1] :
              IsRoundedShare(weekly_leaderboard[1][u],
                             Cardinality(Hits(u, current_week[1])),
                             Cardinality(WeekRows(u, current_week[1])))
        /\ IF WeekRows(username[1], current_week[1]) = {}
           THEN weekly_accuracy[1] = NoValue
           ELSE weekly_accuracy[1] = weekly_leaderboard[1][username[1]]

(* C8 witness: Em has three rows in the week, two of them correct (66.7),  *)
(* and Ma has none.                                                        *)
C8_Witness ==
    /\ pc[1] = "idle"
    /\ Cardinality(WeekRows("Em", current_week[1])) = 3
    /\ DOMAIN weekly_leaderboard[1] = {"Em"}
    /\ weekly_leaderboard[1]["Em"] = 667
    /\ username[1] = "Ma"
    /\ weekly_accuracy[1] = NoValue

(* Session s's step writes the frame of its save_winner / save_pick call. *)
WritesWinner(s) == pc[s] = "save_winner" /\ pc'[s] # "save_winner"

WritesPick(s) == pc[s] = "save_pick" /\ pc'[s] # "save_pick"

(* C6: save_winner(game, winner) sets Winner to winner on every row whose  *)
(* Game is game, whatever its User or Week, and leaves the number and      *)
(* order of rows, every row of another Game, and User, Week, Date, Game    *)
(* and Pick of every row as they were.                                     *)
C6_SaveWinnerFrame ==
    [][\A s \in Sessions : WritesWinner(s) =>
          /\ Len(picks') = Len(picks)
          /\ \A i \in 1..Len(picks) :
                /\ picks'[i].User = picks[i].User
                /\ picks'[i].Week = picks[i].Week
                /\ picks'[i].Date = picks[i].Date
                /\ picks'[i].Game = picks[i].Game
                /\ picks'[i].Pick = picks[i].Pick
                /\ picks'[i].Winner = (IF picks[i].Game = op[s].game
                                       THEN op[s].value ELSE picks[i].Winner)]_vars

(* C6 witness: rows of two users in two weeks share a game name and carry  *)
(* the winner one save_winner call gave them.                              *)
C6_Witness ==
    \E i, j \in 1..Len(picks) :
        /\ picks[i].Game = picks[j].Game
        /\ picks[i].Week # picks[j].Week
        /\ picks[i].User # picks[j].User
        /\ picks[i].Winner # ""
        /\ picks[i].Winner = picks[j].Winner

(* C7: save_winner creates no row, so with no pick row of a user for the   *)
(* game it stores nothing for that user; the row save_pick later appends   *)
(* has an empty Winner; and an empty Winner stays empty until a save_winner*)
(* call for that row's game writes.                                        *)
C7_WinnerOnlyOnExistingRows ==
    [][/\ \A s \in Sessions : WritesWinner(s) =>
            /\ Len(picks') = Len(picks)
            /\ \A u \in users, w \in ApiWeeks :
                  Keys(picks, u, w, op[s].game) = {}
                      => Keys(picks', u, w, op[s].game) = {}
       /\ \A s \in Sessions : WritesPick(s) =>
            \A i \in (Len(picks) + 1)..Len(picks') : picks'[i].Winner = ""
       /\ \A i \in 1..Len(picks) :
            (picks[i].Winner = "" /\ picks'[i].Winner # "") =>
                \E s \in Sessions : WritesWinner(s) /\ op[s].game = picks[i].Game]_vars

(* C7 witness: a winner stands on one user's row of a game and the row     *)
(* another user saved for the same week and game afterwards has none.      *)
C7_Witness ==
    \E i, j \in 1..Len(picks) :
        /\ i < j
        /\ picks[i].Week = picks[j].Week
        /\ picks[i].Game = picks[j].Game
        /\ picks[i].Winner # ""
        /\ picks[j].Winner = ""

(* Session s's step leaves the winner control of a game by calling         *)
(* save_winner.                                                            *)
CallsWinner(s) == pc[s] = "winners" /\ pc'[s] = "save_winner"

(* Winner w is the one the page last passed to save_winner for game g, and *)
(* a pick row of g stores it.                                              *)
Stored(g, w) ==
    /\ w # ""
    /\ called[g] = w
    /\ \E i \in 1..Len(picks) : picks[i].Game = g /\ picks[i].Winner = w

(* C5, as stated: once winner w has been selected and passed to            *)
(* save_winner for a game, a page run whose selection for the game is      *)
(* still w calls save_winner no more (and a call happens only for a        *)
(* non-empty selection that differs from the displayed winner).            *)
C5_NoRepeatedWinnerWrite ==
    [][\A s \in Sessions : CallsWinner(s) =>
          /\ op'[s].value # ""
          /\ op'[s].value # current_winner(df_all[s], op'[s].game)
          /\ called[op'[s].game] # op'[s].value]_vars

(* C5, amended: once winner w has been recorded on at least one pick row   *)
(* of the game, a page run whose selection for the game is still w calls   *)
(* save_winner no more and leaves the table as it is; a call happens only  *)
(* for a non-empty selection that differs from the displayed winner.  (A   *)
(* winner selected while the game has no pick row is written on no row,    *)
(* and every run with that selection calls save_winner again.)             *)
C5_NoRepeatedWriteOnceStored ==
    [][\A s \in Sessions :
          /\ CallsWinner(s) =>
                /\ op'[s].value # ""
                /\ op'[s].value # current_winner(df_all[s], op'[s].game)
                /\ ~Stored(op'[s].game, op'[s].value)
          /\ (WritesWinner(s) /\ \E i \in 1..Len(picks) : picks[i].Game = op[s].game)
                => /\ called'[op[s].game] = op[s].value
                   /\ \E i \in 1..Len(picks') :
                         picks'[i].Game = op[s].game /\ picks'[i].Winner = op[s].value
          /\ (pc[s] = "winners" /\ pc'[s] = "winners") => picks' = picks]_vars

(* C5 witness: a run has passed the winner control of Game1 without a call *)
(* while a row stores the winner recorded before.                          *)
C5_Witness ==
    /\ pc[1] = "winners"
    /\ idx[1] = 2
    /\ df_all[1] = picks
    /\ \E w \in {"A", "B", "C", "D"} : Stored("Game1", w)

(* User, Week, Date, Game and Pick of every row. *)
PickView(frame) ==
    [i \in 1..Len(frame) |->
        <<frame[i].User, frame[i].Week, frame[i].Date, frame[i].Game, frame[i].Pick>>]

HasSchedule(s) == \E i \in 1..Len(schedule) : schedule[i].Week = current_week[s]

(* C9: a run calls save_pick only if the status it computed is Open, and   *)
(* then with the selected user, the resolved week, a game of that week's   *)
(* schedule and one of its two teams; a run whose status is Closed, or     *)
(* that found no current week, creates no pick row and changes no Pick.    *)
C9_PicksOnlyWhileOpen ==
    [][\A s \in Sessions :
          /\ pc'[s] = "save_pick" =>
                /\ week_status'[s] = "Open"
                /\ op'[s].kind = "pick"
                /\ op'[s].user = username'[s]
                /\ op'[s].week = current_week'[s]
                /\ op'[s].value # ""
                /\ \E i \in 1..Len(schedule) :
                      /\ schedule[i].Week = current_week'[s]
                      /\ schedule[i].Game = op'[s].game
                      /\ schedule[i].Date = op'[s].date
                      /\ op'[s].value \in {schedule[i].Home, schedule[i].Away}
          /\ (pc[s] # "idle" /\ (week_status[s] # "Open" \/ ~HasSchedule(s)))
                => PickView(picks') = PickView(picks)]_vars

(* C9 witness: a run of a Closed week is about to write a winner into a    *)
(* table that holds picks.                                                 *)
C9_Witness ==
    /\ pc[1] = "save_winner"
    /\ week_status[1] = "Closed"
    /\ picks # << >>

(* C10, as stated: every picks row has a Pick that is the Home or Away     *)
(* team of the schedule row of its (Week, Game), and a Winner that is      *)
(* empty or the Home or Away team of that schedule row.                    *)
C10_PickAndWinnerAreTeamsOfTheGame ==
    \A i \in 1..Len(picks) :
        \E j \in 1..Len(schedule) :
            /\ schedule[j].Week = picks[i].Week
            /\ schedule[j].Game = picks[i].Game
            /\ picks[i].Pick \in {schedule[j].Home, schedule[j].Away}
            /\ picks[i].Winner \in {"", schedule[j].Home, schedule[j].Away}

(* C2, as stated: the picks table holds at most one row per                *)
(* (User, Week, Game).                                                     *)
C2_UniqueRows ==
    \A i, j \in 1..Len(picks) :
        (/\ picks[i].User = picks[j].User
         /\ picks[i].Week = picks[j].Week
         /\ picks[i].Game = picks[j].Game) => i = j

(* The frame session s's write step hands to the sheet: what it loaded     *)
(* with its own change made.                                               *)
OwnFrame(s) ==
    IF op[s].kind = "pick"
    THEN SavePickFrame(df[s], op[s].user, op[s].week, op[s].date, op[s].game, op[s].value)
    ELSE SaveWinnerFrame(df[s], op[s].game, op[s].value)

(* C3, as stated: after a session's save the table is exactly the          *)
(* snapshot it loaded plus its own mutation (so whatever another session   *)
(* saved in between is lost).                                              *)
C3_SaveReplacesTable ==
    [][\A s \in Sessions : (WritesPick(s) \/ WritesWinner(s)) => picks' = OwnFrame(s)]_vars

(* C1, as stated: save_pick(u, w, d, g, p1) and then save_pick(u, w, d, g, *)
(* p2), run one after the other, leave exactly one row of (u, w, g), with  *)
(* Pick p2.  The table the first call leaves is one that holds a row of    *)
(* (u, w, g) and whose rows of (u, w, g) all have Pick p1; the step is the *)
(* second call's write, nothing written since its load.                    *)
C1_UpsertLeavesOneRow ==
    [][\A s \in Sessions :
          (/\ WritesPick(s)
           /\ df[s] = picks
           /\ Keys(picks, op[s].user, op[s].week, op[s].game) # {}
           /\ \E p1 \in ApiTeams :
                 \A i \in Keys(picks, op[s].user, op[s].week, op[s].game) :
                     picks[i].Pick = p1)
          => /\ Cardinality(Keys(picks', op[s].user, op[s].week, op[s].game)) = 1
             /\ \A i \in Keys(picks', op[s].user, op[s].week, op[s].game) :
                   picks'[i].Pick = op[s].value]_vars

====
